---------------------------- MODULE Spec2Model ----------------------------
(***************************************************************************)
(* Request signing of the goaws client library (context.go) and the        *)
(* service callers that reach it (simplepay.go, sqs.go, sns.go).           *)
(*                                                                         *)
(* A Go string is modelled as a sequence of one-character strings; Byte    *)
(* gives the byte value of a character, so that sort.Strings, QueryEscape  *)
(* and QueryUnescape are computed on bytes as the library computes them.   *)
(***************************************************************************)
EXTENDS Integers, Sequences, FiniteSets

(***************************************************************************)
(* Bounds of the model.                                                    *)
(***************************************************************************)
MaxPairs == 2
MaxSigns == 2
MaxClock == 1

(***************************************************************************)
(* Strings as byte sequences.                                              *)
(***************************************************************************)
\* The printable ASCII characters in byte order, 0x20 .. 0x7E; the place of
\* 0x60 is held by a name, so that the positions are the byte values.
Ascii == <<" ", "!", "\"", "#", "$", "%", "&", "'", "(", ")", "*", "+", ",", "-", ".", "/", "0", "1", "2", "3", "4", "5", "6", "7", "8", "9", ":", ";", "<", "=", ">", "?", "@", "A", "B", "C", "D", "E", "F", "G", "H", "I", "J", "K", "L", "M", "N", "O", "P", "Q", "R", "S", "T", "U", "V", "W", "X", "Y", "Z", "[", "\\", "]", "^", "_", "grave", "a", "b", "c", "d", "e", "f", "g", "h", "i", "j", "k", "l", "m", "n", "o", "p", "q", "r", "s", "t", "u", "v", "w", "x", "y", "z", "{", "|", "}", "~">>

Range(s) == {s[i] : i \in 1..Len(s)}

Chars == Range(Ascii) \cup {"\n"}

\* The byte value of a character.
Byte == [ch \in Chars |-> IF ch = "\n" THEN 10
                          ELSE 31 + (CHOOSE i \in 1..Len(Ascii) : Ascii[i] = ch)]

\* The character of a byte value in 0x20 .. 0x7E.
Chr(b) == Ascii[b - 31]

\* Go's < on strings: bytewise lexicographic order.
Less(s, t) ==
    LET n == IF Len(s) < Len(t) THEN Len(s) ELSE Len(t)
        D == {i \in 1..n : s[i] # t[i]}
    IN  IF D = {} THEN Len(s) < Len(t)
        ELSE LET i == CHOOSE k \in D : \A j \in D : k <= j
             IN  Byte[s[i]] < Byte[t[i]]

RECURSIVE Concat(_)
\* The concatenation of a sequence of strings (by halves, so that the depth
\* of the recursion is logarithmic in the number of strings).
Concat(ss) ==
    IF Len(ss) = 0 THEN <<>>
    ELSE IF Len(ss) = 1 THEN ss[1]
    ELSE LET h == Len(ss) \div 2
         IN  Concat(SubSeq(ss, 1, h)) \o Concat(SubSeq(ss, h + 1, Len(ss)))

\* strings.Join
Join(ss, sep) ==
    Concat([i \in 1..(2 * Len(ss) - 1) |->
               IF i % 2 = 1 THEN ss[(i + 1) \div 2] ELSE sep])

\* strings.Index for a one-byte separator: the first position of ch in s, 0 if none.
Index(s, ch) ==
    LET P == {i \in 1..Len(s) : s[i] = ch}
    IN  IF P = {} THEN 0 ELSE CHOOSE i \in P : \A j \in P : i <= j

\* strings.Split for a one-byte separator: the pieces between the separators;
\* Split("", sep) is the one empty string.
Split(s, ch) ==
    LET P      == {i \in 1..Len(s) : s[i] = ch}
        n      == Cardinality(P)
        pos(k) == IF k = 0 THEN 0
                  ELSE IF k = n + 1 THEN Len(s) + 1
                  ELSE CHOOSE p \in P : Cardinality({q \in P : q < p}) = k - 1
    IN  [k \in 1..(n + 1) |-> SubSeq(s, pos(k - 1) + 1, pos(k) - 1)]

\* A variant of Replace that substitutes nothing.
ReplaceNone(s, old, new) == s

\* strings.Replace(s, old, new, -1) for a one-byte old.
Replace(s, old, new) ==
    Concat([i \in 1..Len(s) |-> IF s[i] = old THEN new ELSE <<s[i]>>])

\* A variant of SortStrings that leaves the order as it is.
SortStringsNone(ss) == ss

RECURSIVE SortStringsByKey(_)
\* A variant of SortStrings that orders the pair-strings by the key before "=".
SortStringsByKey(ss) ==
    IF ss = <<>> THEN <<>>
    ELSE LET K(x) == SubSeq(x, 1, Index(x, "=") - 1)
             rest == SortStringsByKey(Tail(ss))
             x    == Head(ss)
             k    == Cardinality({i \in 1..Len(rest) : ~Less(K(x), K(rest[i]))})
         IN  SubSeq(rest, 1, k) \o <<x>> \o SubSeq(rest, k + 1, Len(rest))

RECURSIVE SortStrings(_)
\* sort.Strings: ascending byte order of the whole strings.
SortStrings(ss) ==
    IF ss = <<>> THEN <<>>
    ELSE LET rest == SortStrings(Tail(ss))
             x    == Head(ss)
             k    == Cardinality({i \in 1..Len(rest) : Less(rest[i], x)})
         IN  SubSeq(rest, 1, k) \o <<x>> \o SubSeq(rest, k + 1, Len(rest))

(***************************************************************************)
(* net/url: escaping, url.Values, ParseQuery and Encode.                   *)
(***************************************************************************)
upperhex == <<"0", "1", "2", "3", "4", "5", "6", "7", "8", "9", "A", "B", "C", "D", "E", "F">>
lowerhex == <<"0", "1", "2", "3", "4", "5", "6", "7", "8", "9", "a", "b", "c", "d", "e", "f">>

Alnum == Range(<<"A", "B", "C", "D", "E", "F", "G", "H", "I", "J", "K", "L", "M", "N", "O", "P", "Q", "R", "S", "T", "U", "V", "W", "X", "Y", "Z", "a", "b", "c", "d", "e", "f", "g", "h", "i", "j", "k", "l", "m", "n", "o", "p", "q", "r", "s", "t", "u", "v", "w", "x", "y", "z", "0", "1", "2", "3", "4", "5", "6", "7", "8", "9">>)

\* url.shouldEscape in encodeQueryComponent mode: everything except the
\* unreserved characters is escaped.
shouldEscape(ch) == ch \notin Alnum \cup {"-", "_", ".", "~"}

\* url.QueryEscape: a space becomes "+", an escaped byte "%XX" in upper-case hex.
QueryEscape(s) ==
    Concat([i \in 1..Len(s) |->
               IF s[i] = " " THEN <<"+">>
               ELSE IF shouldEscape(s[i])
                    THEN <<"%", upperhex[(Byte[s[i]] \div 16) + 1],
                                upperhex[(Byte[s[i]] % 16) + 1]>>
                    ELSE <<s[i]>>])

ishex(ch) == ch \in Range(upperhex) \cup Range(lowerhex)

unhex(ch) ==
    IF ch \in Range(upperhex)
    THEN (CHOOSE i \in 1..Len(upperhex) : upperhex[i] = ch) - 1
    ELSE (CHOOSE i \in 1..Len(lowerhex) : lowerhex[i] = ch) - 1

\* Whether url.QueryUnescape returns no error: every "%" starts "%XX", and the
\* byte is one the model has a character for.
unescapeOK(s) ==
    \A i \in 1..Len(s) :
        s[i] = "%" => /\ i + 2 <= Len(s)
                      /\ ishex(s[i + 1])
                      /\ ishex(s[i + 2])
                      /\ (16 * unhex(s[i + 1]) + unhex(s[i + 2])) \in 32..126

\* url.QueryUnescape of a string it accepts: "+" becomes a space, "%XX" the
\* byte XX.  "%" is no hex digit, so a position is a digit of an escape exactly
\* when one of the two positions before it holds "%".
QueryUnescape(s) ==
    LET digit(i) == \/ i > 1 /\ s[i - 1] = "%"
                    \/ i > 2 /\ s[i - 2] = "%"
    IN  Concat([i \in 1..Len(s) |->
                   IF digit(i) THEN <<>>
                   ELSE IF s[i] = "%"
                        THEN <<Chr(16 * unhex(s[i + 1]) + unhex(s[i + 2]))>>
                        ELSE IF s[i] = "+" THEN <<" ">> ELSE <<s[i]>>])

\* A variant of Set that appends, as url.Values.Add does.
SetAppends(v, key, value) ==
    [k \in DOMAIN v \cup {key} |->
        IF k = key THEN (IF k \in DOMAIN v THEN Append(v[k], value) ELSE <<value>>)
        ELSE v[k]]

\* url.Values.Set: the key's values are replaced by the one value.
Set(v, key, value) ==
    [k \in DOMAIN v \cup {key} |-> IF k = key THEN <<value>> ELSE v[k]]

\* url.Values.Add: the value is appended to the key's values.
Add(v, key, value) ==
    [k \in DOMAIN v \cup {key} |->
        IF k = key THEN (IF k \in DOMAIN v THEN Append(v[k], value) ELSE <<value>>)
        ELSE v[k]]

\* The empty url.Values, make(url.Values).
NoValues == [k \in {} |-> <<>>]

RECURSIVE parsePieces(_, _)
\* The loop of url.ParseQuery over the "&"-separated pieces: an empty piece, a
\* piece holding ";" or one with a bad escape is skipped.
parsePieces(pieces, m) ==
    IF pieces = <<>> THEN m
    ELSE LET p     == Head(pieces)
             i     == Index(p, "=")
             key   == IF i = 0 THEN p ELSE SubSeq(p, 1, i - 1)
             value == IF i = 0 THEN <<>> ELSE SubSeq(p, i + 1, Len(p))
         IN  IF \/ p = <<>>
                \/ Index(p, ";") # 0
                \/ ~unescapeOK(key)
                \/ ~unescapeOK(value)
             THEN parsePieces(Tail(pieces), m)
             ELSE parsePieces(Tail(pieces), Add(m, QueryUnescape(key), QueryUnescape(value)))

\* URL.Query(): the parsed RawQuery, parse errors dropped.
Query(RawQuery) == parsePieces(Split(RawQuery, "&"), NoValues)

RECURSIVE sortedKeys(_)
\* The keys of a url.Values in ascending byte order (the key sort of Encode).
sortedKeys(S) ==
    IF S = {} THEN <<>>
    ELSE LET m == CHOOSE x \in S : \A y \in S : ~Less(y, x)
         IN  <<m>> \o sortedKeys(S \ {m})

\* The pair-strings "key=value" of url.Values.Encode, in its order: by key, and
\* the values of one key in the order they were added.
encodedPairs(v) ==
    LET keys == sortedKeys(DOMAIN v)
    IN  Concat([i \in 1..Len(keys) |->
                  [j \in 1..Len(v[keys[i]]) |->
                      QueryEscape(keys[i]) \o <<"=">> \o QueryEscape(v[keys[i]][j])]])

\* url.Values.Encode
Encode(v) == Join(encodedPairs(v), <<"&">>)

(***************************************************************************)
(* encoding/base64, crypto/hmac and time, as sign uses them.               *)
(***************************************************************************)
encodeStd == <<"A", "B", "C", "D", "E", "F", "G", "H", "I", "J", "K", "L", "M", "N", "O", "P", "Q", "R", "S", "T", "U", "V", "W", "X", "Y", "Z", "a", "b", "c", "d", "e", "f", "g", "h", "i", "j", "k", "l", "m", "n", "o", "p", "q", "r", "s", "t", "u", "v", "w", "x", "y", "z", "0", "1", "2", "3", "4", "5", "6", "7", "8", "9", "+", "/">>

RECURSIVE EncodeToString(_)
\* base64.StdEncoding.EncodeToString of a sequence of bytes: the standard
\* alphabet, three bytes to four characters, "=" padding.
EncodeToString(src) ==
    LET e(n) == encodeStd[n + 1]
    IN  IF src = <<>> THEN <<>>
        ELSE IF Len(src) = 1
             THEN <<e(src[1] \div 4), e((src[1] % 4) * 16), "=", "=">>
        ELSE IF Len(src) = 2
             THEN <<e(src[1] \div 4), e((src[1] % 4) * 16 + src[2] \div 16),
                    e((src[2] % 16) * 4), "=">>
        ELSE <<e(src[1] \div 4), e((src[1] % 4) * 16 + src[2] \div 16),
               e((src[2] % 16) * 4 + src[3] \div 64), e(src[3] % 64)>>
             \o EncodeToString(SubSeq(src, 4, Len(src)))

RECURSIVE checksum(_, _, _)
\* The position-weighted sum of the bytes s[lo..hi], modulo 256 (by halves).
checksum(s, lo, hi) ==
    IF lo > hi THEN 0
    ELSE IF lo = hi THEN ((2 * lo + 1) * Byte[s[lo]]) % 256
    ELSE LET mid == (lo + hi) \div 2
         IN  (checksum(s, lo, mid) + checksum(s, mid + 1, hi)) % 256

\* hmac.New(sha256.New, key), Write(message), Sum(nil): a digest that is a
\* function of the key and of the message only.  SHA-256 is abstracted to a
\* one-byte keyed checksum; the digest is a sequence of bytes.
Sum(key, message) ==
    <<(31 * checksum(key, 1, Len(key)) + checksum(message, 1, Len(message))) % 256>>

\* time.Now().UTC().Format(time.RFC3339) for the clock value t, the seconds
\* elapsed since 2020-01-01T00:00:00Z (t < 60).
Format(t) ==
    <<"2", "0", "2", "0", "-", "0", "1", "-", "0", "1", "T", "0", "0", ":", "0", "0", ":">> \o <<Chr(48 + (t \div 10)), Chr(48 + (t % 10))>> \o <<"Z">>

(***************************************************************************)
(* context.go: signingContext, getValues, addSignature, sign.              *)
(***************************************************************************)
defaultHTTPSigningContext == 0
purchaseSigningContext == 1

\* NewContext
NewContext(accessKeyId, accessKey) == [keyId |-> accessKeyId, key |-> accessKey]

\* A variant of getValues whose purchase case is missing: it falls to the panic.
getValuesNoPurchase(sc, c, r, t) ==
    LET params == Query(r.RawQuery)
    IN  IF sc = defaultHTTPSigningContext
        THEN [panic  |-> FALSE,
              params |-> Set(Set(Set(Set(params,
                            <<"T", "i", "m", "e", "s", "t", "a", "m", "p">>, Format(t)),
                            <<"A", "W", "S", "A", "c", "c", "e", "s", "s", "K", "e", "y", "I", "d">>, c.keyId),
                            <<"S", "i", "g", "n", "a", "t", "u", "r", "e", "V", "e", "r", "s", "i", "o", "n">>, <<"2">>),
                            <<"S", "i", "g", "n", "a", "t", "u", "r", "e", "M", "e", "t", "h", "o", "d">>, <<"H", "m", "a", "c", "S", "H", "A", "2", "5", "6">>)]
        ELSE [panic |-> TRUE, params |-> params]

\* A variant of getValues whose purchase case stamps the request too.
getValuesStamped(sc, c, r, t) ==
    LET params == Query(r.RawQuery)
    IN  IF sc = defaultHTTPSigningContext
        THEN [panic  |-> FALSE,
              params |-> Set(Set(Set(Set(params,
                            <<"T", "i", "m", "e", "s", "t", "a", "m", "p">>, Format(t)),
                            <<"A", "W", "S", "A", "c", "c", "e", "s", "s", "K", "e", "y", "I", "d">>, c.keyId),
                            <<"S", "i", "g", "n", "a", "t", "u", "r", "e", "V", "e", "r", "s", "i", "o", "n">>, <<"2">>),
                            <<"S", "i", "g", "n", "a", "t", "u", "r", "e", "M", "e", "t", "h", "o", "d">>, <<"H", "m", "a", "c", "S", "H", "A", "2", "5", "6">>)]
        ELSE IF sc = purchaseSigningContext
        THEN [panic  |-> FALSE,
              params |-> Set(Set(Set(Set(params,
                            <<"T", "i", "m", "e", "s", "t", "a", "m", "p">>, Format(t)),
                            <<"a", "c", "c", "e", "s", "s", "K", "e", "y">>, c.keyId),
                            <<"s", "i", "g", "n", "a", "t", "u", "r", "e", "V", "e", "r", "s", "i", "o", "n">>, <<"2">>),
                            <<"s", "i", "g", "n", "a", "t", "u", "r", "e", "M", "e", "t", "h", "o", "d">>, <<"H", "m", "a", "c", "S", "H", "A", "2", "5", "6">>)]
        ELSE [panic |-> TRUE, params |-> params]

\* A variant of getValues whose purchase case writes the default profile's names.
getValuesUpper(sc, c, r, t) ==
    LET params == Query(r.RawQuery)
    IN  IF sc = defaultHTTPSigningContext
        THEN [panic  |-> FALSE,
              params |-> Set(Set(Set(Set(params,
                            <<"T", "i", "m", "e", "s", "t", "a", "m", "p">>, Format(t)),
                            <<"A", "W", "S", "A", "c", "c", "e", "s", "s", "K", "e", "y", "I", "d">>, c.keyId),
                            <<"S", "i", "g", "n", "a", "t", "u", "r", "e", "V", "e", "r", "s", "i", "o", "n">>, <<"2">>),
                            <<"S", "i", "g", "n", "a", "t", "u", "r", "e", "M", "e", "t", "h", "o", "d">>, <<"H", "m", "a", "c", "S", "H", "A", "2", "5", "6">>)]
        ELSE IF sc = purchaseSigningContext
        THEN [panic  |-> FALSE,
              params |-> Set(Set(Set(params,
                            <<"A", "W", "S", "A", "c", "c", "e", "s", "s", "K", "e", "y", "I", "d">>, c.keyId),
                            <<"S", "i", "g", "n", "a", "t", "u", "r", "e", "V", "e", "r", "s", "i", "o", "n">>, <<"2">>),
                            <<"S", "i", "g", "n", "a", "t", "u", "r", "e", "M", "e", "t", "h", "o", "d">>, <<"H", "m", "a", "c", "S", "H", "A", "2", "5", "6">>)]
        ELSE [panic |-> TRUE, params |-> params]

\* signingContext.getValues at clock value t: the request's parsed query with
\* the profile's baseline parameters set; panic for an unknown profile.
getValues(sc, c, r, t) ==
    LET params == Query(r.RawQuery)
    IN  IF sc = defaultHTTPSigningContext
        THEN [panic  |-> FALSE,
              params |-> Set(Set(Set(Set(params,
                            <<"T", "i", "m", "e", "s", "t", "a", "m", "p">>, Format(t)),
                            <<"A", "W", "S", "A", "c", "c", "e", "s", "s", "K", "e", "y", "I", "d">>, c.keyId),
                            <<"S", "i", "g", "n", "a", "t", "u", "r", "e", "V", "e", "r", "s", "i", "o", "n">>, <<"2">>),
                            <<"S", "i", "g", "n", "a", "t", "u", "r", "e", "M", "e", "t", "h", "o", "d">>, <<"H", "m", "a", "c", "S", "H", "A", "2", "5", "6">>)]
        ELSE IF sc = purchaseSigningContext
        THEN [panic  |-> FALSE,
              params |-> Set(Set(Set(params,
                            <<"a", "c", "c", "e", "s", "s", "K", "e", "y">>, c.keyId),
                            <<"s", "i", "g", "n", "a", "t", "u", "r", "e", "V", "e", "r", "s", "i", "o", "n">>, <<"2">>),
                            <<"s", "i", "g", "n", "a", "t", "u", "r", "e", "M", "e", "t", "h", "o", "d">>, <<"H", "m", "a", "c", "S", "H", "A", "2", "5", "6">>)]
        ELSE [panic |-> TRUE, params |-> params]

\* A variant of addSignature that appends the signature to the field's values.
addSignatureAppends(sc, v, signature) ==
    IF sc = defaultHTTPSigningContext
    THEN [panic |-> FALSE, v |-> Add(v, <<"S", "i", "g", "n", "a", "t", "u", "r", "e">>, signature)]
    ELSE IF sc = purchaseSigningContext
    THEN [panic |-> FALSE, v |-> Add(v, <<"s", "i", "g", "n", "a", "t", "u", "r", "e">>, signature)]
    ELSE [panic |-> TRUE, v |-> v]

\* signingContext.addSignature; panic for an unknown profile.
addSignature(sc, v, signature) ==
    IF sc = defaultHTTPSigningContext
    THEN [panic |-> FALSE, v |-> Set(v, <<"S", "i", "g", "n", "a", "t", "u", "r", "e">>, signature)]
    ELSE IF sc = purchaseSigningContext
    THEN [panic |-> FALSE, v |-> Set(v, <<"s", "i", "g", "n", "a", "t", "u", "r", "e">>, signature)]
    ELSE [panic |-> TRUE, v |-> v]

\* Context.sign at clock value t.  The result holds what the call computed on
\* its way (params, values, queryString, signString, signature) and the
\* RawQuery it leaves in the request; a panic leaves the request as it was.
sign(c, sc, r, t) ==
    LET gv          == getValues(sc, c, r, t)
        params      == gv.params
        values      == SortStrings(Split(Encode(params), "&"))
        joined      == Join(values, <<"&">>)
        queryString == Replace(Replace(Replace(joined,
                           "+", <<"%", "2", "0">>), "(", <<"%", "2", "8">>), ")", <<"%", "2", "9">>)
        signString  == r.Method \o <<"\n">> \o r.Host \o <<"\n">> \o r.Path
                           \o <<"\n">> \o queryString
        signature   == EncodeToString(Sum(c.key, signString))
        added       == addSignature(sc, params, signature)
    IN  IF gv.panic \/ added.panic
        THEN [panic |-> TRUE, params |-> params, values |-> <<>>,
              queryString |-> <<>>, signString |-> <<>>, signature |-> <<>>,
              RawQuery |-> r.RawQuery]
        ELSE [panic |-> FALSE, params |-> params, values |-> values,
              queryString |-> queryString, signString |-> signString,
              signature |-> signature, RawQuery |-> Encode(added.v)]

(***************************************************************************)
(* net/http and strconv, as the callers of sign use them.                  *)
(***************************************************************************)
\* strings.HasPrefix
HasPrefix(s, prefix) ==
    Len(s) >= Len(prefix) /\ SubSeq(s, 1, Len(prefix)) = prefix

\* strconv.FormatInt(n, 10) for 0 <= n < 100.
FormatInt(n) ==
    IF n < 10 THEN <<Chr(48 + n)>> ELSE <<Chr(48 + (n \div 10)), Chr(48 + (n % 10))>>

\* http.NewRequest(method, urlStr, nil) for an "https://host/path?query" URL:
\* the URL is split at the first "?" and the first "/" after the scheme; a
\* space in the host is a parse error; an empty method means GET.
NewRequest(method, urlStr) ==
    LET scheme == <<"h", "t", "t", "p", "s", ":", "/", "/">>
        rest   == SubSeq(urlStr, Len(scheme) + 1, Len(urlStr))
        q      == Index(rest, "?")
        front  == IF q = 0 THEN rest ELSE SubSeq(rest, 1, q - 1)
        query  == IF q = 0 THEN <<>> ELSE SubSeq(rest, q + 1, Len(rest))
        s      == Index(front, "/")
        host   == IF s = 0 THEN front ELSE SubSeq(front, 1, s - 1)
        path   == IF s = 0 THEN <<>> ELSE SubSeq(front, s, Len(front))
    IN  IF ~HasPrefix(urlStr, scheme) \/ Index(host, " ") # 0
        THEN [err |-> TRUE, req |-> <<>>]
        ELSE [err |-> FALSE,
              req |-> [Method |-> IF method = <<>> THEN <<"G", "E", "T">> ELSE method,
                       Host |-> host, Path |-> path, RawQuery |-> query]]

(***************************************************************************)
(* The state: the credentials, the request the application holds and       *)
(* signs, the clock, and the sign calls made so far.                       *)
(***************************************************************************)
VARIABLES
    c,       \* the Context: keyId and key
    orig,    \* the key/value pairs the application built its request from
    r,       \* the *http.Request: Method, URL.Host, URL.Path, URL.RawQuery
    now,     \* the wall clock read by time.Now()
    nsigns,  \* the number of calls of Context.sign so far
    err,     \* whether the last public operation returned an error
    calls    \* the last two calls of Context.sign, oldest first: profile,
             \* request as passed, clock value, and what the call computed

vars == <<c, orig, r, now, nsigns, err, calls>>

\* The credentials the application may hold.
Contexts == {NewContext(<<"A", "K", "I", "D", "E", "X", "A", "M", "P", "L", "E">>, <<"s", "e", "c", "r", "e", "t">>)}

\* Method and URL (without the query) of the requests the application builds.
Targets ==
    {[Method |-> <<"G", "E", "T">>, URL |-> <<"h", "t", "t", "p", "s", ":", "/", "/", "s", "q", "s", ".", "e", "x", "a", "m", "p", "l", "e", ".", "c", "o", "m", "/">>],
     [Method |-> <<"g", "e", "t">>, URL |-> <<"h", "t", "t", "p", "s", ":", "/", "/", "s", "n", "s", ".", "e", "x", "a", "m", "p", "l", "e", ".", "c", "o", "m", "/", "q">>]}

\* The key/value pairs the application may put in a query.
Pairs ==
    <<<<<<"a">>, <<"1">>>>, <<<<"a", "-", "b">>, <<"1">>>>, <<<<"a">>, <<"b", " ", "c">>>>, <<<<"b">>, <<"(", "+", ")">>>>,
      <<<<"T", "i", "m", "e", "s", "t", "a", "m", "p">>, <<"1">>>>, <<<<"a", "c", "c", "e", "s", "s", "K", "e", "y">>, <<"1">>>>, <<<<"S", "i", "g", "n", "a", "t", "u", "r", "e">>, <<"1">>>>>>

\* The collections of at most MaxPairs pairs, repetition allowed, each listed
\* once (in the order of Pairs); NewRequest lists them in the other orders.
PairLists ==
    UNION {{[i \in 1..n |-> Pairs[f[i]]] :
               f \in {g \in [1..n -> 1..Len(Pairs)] :
                         \A i, j \in 1..n : i <= j => g[i] <= g[j]}} :
           n \in 0..MaxPairs}

\* The raw query that lists the pairs in the given order.
rawQuery(pairs) ==
    Join([i \in 1..Len(pairs) |->
             QueryEscape(pairs[i][1]) \o <<"=">> \o QueryEscape(pairs[i][2])], <<"&">>)

\* The request of the application for a target and a list of pairs.
request(target, pairs) ==
    NewRequest(target.Method, target.URL \o <<"?">> \o rawQuery(pairs)).req

\* The orders in which n pairs can be listed.
Orders(n) == {p \in [1..n -> 1..n] : \A i, j \in 1..n : p[i] = p[j] => i = j}

Init ==
    /\ c \in Contexts
    /\ orig \in PairLists
    /\ \E target \in Targets : r = request(target, orig)
    /\ now = 0
    /\ nsigns = 0
    /\ err = FALSE
    /\ calls = <<>>

\* Time passes.
Tick ==
    /\ now < MaxClock
    /\ now' = now + 1
    /\ UNCHANGED <<c, orig, r, nsigns, err, calls>>

\* The call c.sign(sc, r) on the application's request, at the current time.
signCall(sc) ==
    LET out  == sign(c, sc, r, now)
        call == [sc |-> sc, r |-> r, t |-> now, out |-> out]
    IN  /\ nsigns < MaxSigns
        /\ nsigns' = nsigns + 1
        /\ r' = [r EXCEPT !.RawQuery = out.RawQuery]
        /\ calls' = IF calls = <<>> THEN <<call>> ELSE <<calls[Len(calls)], call>>
        /\ err' = FALSE
        /\ UNCHANGED <<c, orig, now>>

\* Context.SignRequest(r)
SignRequest == signCall(defaultHTTPSigningContext)

\* Context.sign(purchaseSigningContext, r)
SignPurchase == signCall(purchaseSigningContext)

\* The application builds its request anew from the same pairs, listed in
\* some order.
BuildRequest ==
    \E p \in Orders(Len(orig)) :
        /\ r' = [r EXCEPT !.RawQuery = rawQuery([i \in 1..Len(orig) |-> orig[p[i]]])]
        /\ UNCHANGED <<c, orig, now, nsigns, err, calls>>

Next == Tick \/ SignRequest \/ SignPurchase \/ BuildRequest

Spec == Init /\ [][Next]_vars

(***************************************************************************)
(* The public operations (simplepay.go, sqs.go, the SNS topic): each builds *)
(* its own request, signs it and sends it.  The response is not modelled:  *)
(* whether the operation returns an error after signing is left open.      *)
(***************************************************************************)
\* The stores, purchases, queues, topics and other arguments of the callers.
Stores ==
    {[Sandbox |-> FALSE, ReturnURL |-> <<"h", "t", "t", "p", "s", ":", "/", "/", "s", "h", "o", "p", "/", "r">>],
     [Sandbox |-> TRUE, ReturnURL |-> <<"h", "t", "t", "p", "s", ":", "/", "/", "s", "h", "o", "p", "/", "r">>]}

Purchases ==
    {[Description |-> <<"a", " ", "b">>, Price |-> <<"U", "S", "D", " ", "1">>, ReferenceId |-> <<>>],
     [Description |-> <<"a", " ", "b">>, Price |-> <<"U", "S", "D", " ", "1">>, ReferenceId |-> <<"7">>],
     [Description |-> <<"a", " ", "b">>, Price |-> <<"E", "U", "R", " ", "1">>, ReferenceId |-> <<>>]}

Amounts == {<<"U", "S", "D", " ", "1">>, <<"E", "U", "R", " ", "1">>}

TransactionIds == {<<"t", "1">>}

PaymentParams == {Query(<<"s", "t", "a", "t", "u", "s", "=", "P", "S", "&", "s", "i", "g", "n", "a", "t", "u", "r", "e", "=", "x", "%", "2", "B">>)}

Queues == {[url |-> <<"h", "t", "t", "p", "s", ":", "/", "/", "s", "q", "s", ".", "e", "x", "a", "m", "p", "l", "e", ".", "c", "o", "m", "/", "q">>], [url |-> <<"h", "t", "t", "p", "s", ":", "/", "/", "b", "a", "d", " ", "h", "o", "s", "t", "/", "q">>]}

Topics == {[host |-> <<"s", "n", "s", ".", "e", "x", "a", "m", "p", "l", "e", ".", "c", "o", "m">>, arn |-> <<"a", "r", "n", ":", "t">>],
           [host |-> <<"b", "a", "d", " ", "h", "o", "s", "t">>, arn |-> <<"a", "r", "n", ":", "t">>]}

\* max and the seconds of wait, for ReceiveMessages.
Receives == {<<1, 0>>, <<10, 20>>, <<11, 0>>, <<1, 21>>, <<-1, 0>>, <<1, -1>>}

Bodies == {<<"h", "i", " ", "(", "x", ")">>}

\* c.sign(sc, req) on the operation's own request; afterwards the operation
\* returns an error or not.
signOwn(sc, req, errs) ==
    LET out  == sign(c, sc, req, now)
        call == [sc |-> sc, r |-> req, t |-> now, out |-> out]
    IN  /\ nsigns < MaxSigns
        /\ nsigns' = nsigns + 1
        /\ calls' = IF calls = <<>> THEN <<call>> ELSE <<calls[Len(calls)], call>>
        /\ err' \in errs
        /\ UNCHANGED <<c, orig, r, now>>

\* The operation returns an error before it has a request to sign.
returnError ==
    /\ err' = TRUE
    /\ UNCHANGED <<c, orig, r, now, nsigns, calls>>

\* The request of an operation: http.NewRequest("GET", urlStr, nil), then
\* the signing with profile sc; an error of NewRequest is returned.
signNew(sc, urlStr, errs) ==
    LET nr == NewRequest(<<"G", "E", "T">>, urlStr)
    IN  IF nr.err THEN returnError ELSE signOwn(sc, nr.req, errs)

\* Store.CreatePurchaseURL
CreatePurchaseURL ==
    \E store \in Stores, item \in Purchases :
        IF ~HasPrefix(item.Price, <<"U", "S", "D", " ">>) THEN returnError
        ELSE LET p1 == Set(Set(Set(Set(Set(NoValues,
                           <<"d", "e", "s", "c", "r", "i", "p", "t", "i", "o", "n">>, item.Description),
                           <<"a", "m", "o", "u", "n", "t">>, item.Price),
                           <<"c", "o", "b", "r", "a", "n", "d", "i", "n", "g", "S", "t", "y", "l", "e">>, <<"l", "o", "g", "o">>),
                           <<"i", "m", "m", "e", "d", "i", "a", "t", "e", "R", "e", "t", "u", "r", "n">>, <<"1">>),
                           <<"p", "r", "o", "c", "e", "s", "s", "I", "m", "m", "e", "d", "i", "a", "t", "e">>, <<"0">>)
                 p2 == IF item.ReferenceId # <<>>
                       THEN Set(p1, <<"r", "e", "f", "e", "r", "e", "n", "c", "e", "I", "d">>, item.ReferenceId) ELSE p1
                 params == Add(p2, <<"r", "e", "t", "u", "r", "n", "U", "R", "L">>, store.ReturnURL)
                 host == IF store.Sandbox
                         THEN <<"h", "t", "t", "p", "s", ":", "/", "/", "a", "u", "t", "h", "o", "r", "i", "z", "e", ".", "p", "a", "y", "m", "e", "n", "t", "s", "-", "s", "a", "n", "d", "b", "o", "x", ".", "a", "m", "a", "z", "o", "n", ".", "c", "o", "m", "/", "p", "b", "a", "/", "p", "a", "y", "p", "i", "p", "e", "l", "i", "n", "e", "?">>
                         ELSE <<"h", "t", "t", "p", "s", ":", "/", "/", "a", "u", "t", "h", "o", "r", "i", "z", "e", ".", "p", "a", "y", "m", "e", "n", "t", "s", ".", "a", "m", "a", "z", "o", "n", ".", "c", "o", "m", "/", "p", "b", "a", "/", "p", "a", "y", "p", "i", "p", "e", "l", "i", "n", "e", "?">>
             IN  signNew(purchaseSigningContext, host \o Encode(params), {FALSE})

\* The host of the FPS operations.
fpsHost(store) ==
    IF store.Sandbox THEN <<"h", "t", "t", "p", "s", ":", "/", "/", "f", "p", "s", ".", "s", "a", "n", "d", "b", "o", "x", ".", "a", "m", "a", "z", "o", "n", "a", "w", "s", ".", "c", "o", "m", "/", "?">>
    ELSE <<"h", "t", "t", "p", "s", ":", "/", "/", "f", "p", "s", ".", "a", "m", "a", "z", "o", "n", "a", "w", "s", ".", "c", "o", "m", "/", "?">>

\* Store.GetTransactionStatus
GetTransactionStatus ==
    \E store \in Stores, transactionId \in TransactionIds :
        LET params == Set(Set(Set(NoValues,
                          <<"A", "c", "t", "i", "o", "n">>, <<"G", "e", "t", "T", "r", "a", "n", "s", "a", "c", "t", "i", "o", "n", "S", "t", "a", "t", "u", "s">>),
                          <<"T", "r", "a", "n", "s", "a", "c", "t", "i", "o", "n", "I", "d">>, transactionId),
                          <<"V", "e", "r", "s", "i", "o", "n">>, <<"2", "0", "0", "8", "-", "0", "9", "-", "1", "7">>)
        IN  signNew(defaultHTTPSigningContext, fpsHost(store) \o Encode(params), BOOLEAN)

\* Store.SettleTransaction
SettleTransaction ==
    \E store \in Stores, transactionId \in TransactionIds, amount \in Amounts :
        IF ~HasPrefix(amount, <<"U", "S", "D", " ">>) THEN returnError
        ELSE LET params == Set(Set(Set(Set(Set(NoValues,
                               <<"A", "c", "t", "i", "o", "n">>, <<"S", "e", "t", "t", "l", "e">>),
                               <<"R", "e", "s", "e", "r", "v", "e", "T", "r", "a", "n", "s", "a", "c", "t", "i", "o", "n", "I", "d">>, transactionId),
                               <<"T", "r", "a", "n", "s", "a", "c", "t", "i", "o", "n", "A", "m", "o", "u", "n", "t", ".", "C", "u", "r", "r", "e", "n", "c", "y", "C", "o", "d", "e">>, <<"U", "S", "D">>),
                               <<"T", "r", "a", "n", "s", "a", "c", "t", "i", "o", "n", "A", "m", "o", "u", "n", "t", ".", "V", "a", "l", "u", "e">>, SubSeq(amount, 5, Len(amount))),
                               <<"V", "e", "r", "s", "i", "o", "n">>, <<"2", "0", "0", "8", "-", "0", "9", "-", "1", "7">>)
             IN  signNew(defaultHTTPSigningContext, fpsHost(store) \o Encode(params), BOOLEAN)

\* Store.VerifyPaymentParams
VerifyPaymentParams ==
    \E store \in Stores, v \in PaymentParams :
        LET params == Set(Set(Set(Set(NoValues,
                          <<"A", "c", "t", "i", "o", "n">>, <<"V", "e", "r", "i", "f", "y", "S", "i", "g", "n", "a", "t", "u", "r", "e">>),
                          <<"U", "r", "l", "E", "n", "d", "P", "o", "i", "n", "t">>, store.ReturnURL),
                          <<"H", "t", "t", "p", "P", "a", "r", "a", "m", "e", "t", "e", "r", "s">>, Encode(v)),
                          <<"V", "e", "r", "s", "i", "o", "n">>, <<"2", "0", "0", "8", "-", "0", "9", "-", "1", "7">>)
        IN  signNew(defaultHTTPSigningContext, fpsHost(store) \o Encode(params), BOOLEAN)

\* Queue.ReceiveMessages
ReceiveMessages ==
    \E q \in Queues, mw \in Receives :
        LET max     == mw[1]
            seconds == mw[2]
        IN  IF seconds < 0 \/ seconds > 20 THEN returnError
            ELSE IF max < 0 \/ max > 10 THEN returnError
            ELSE LET params == Set(Set(Set(Set(Set(NoValues,
                                   <<"A", "c", "t", "i", "o", "n">>, <<"R", "e", "c", "e", "i", "v", "e", "M", "e", "s", "s", "a", "g", "e">>),
                                   <<"M", "a", "x", "N", "u", "m", "b", "e", "r", "O", "f", "M", "e", "s", "s", "a", "g", "e", "s">>, FormatInt(max)),
                                   <<"V", "i", "s", "i", "b", "i", "l", "i", "t", "y", "T", "i", "m", "e", "o", "u", "t">>, <<"5">>),
                                   <<"W", "a", "i", "t", "T", "i", "m", "e", "S", "e", "c", "o", "n", "d", "s">>, FormatInt(seconds)),
                                   <<"V", "e", "r", "s", "i", "o", "n">>, <<"2", "0", "0", "9", "-", "0", "2", "-", "0", "1">>)
                 IN  signNew(defaultHTTPSigningContext,
                             q.url \o <<"/", "?">> \o Encode(params), BOOLEAN)

\* Queue.DeleteMessage
DeleteMessage ==
    \E q \in Queues, receiptHandle \in TransactionIds :
        LET params == Set(Set(Set(NoValues,
                          <<"A", "c", "t", "i", "o", "n">>, <<"D", "e", "l", "e", "t", "e", "M", "e", "s", "s", "a", "g", "e">>),
                          <<"R", "e", "c", "e", "i", "p", "t", "H", "a", "n", "d", "l", "e">>, receiptHandle),
                          <<"V", "e", "r", "s", "i", "o", "n">>, <<"2", "0", "0", "9", "-", "0", "2", "-", "0", "1">>)
        IN  signNew(defaultHTTPSigningContext, q.url \o <<"/", "?">> \o Encode(params), BOOLEAN)

\* Topic.Publish
Publish ==
    \E topic \in Topics, body \in Bodies :
        LET params == Set(Set(Set(NoValues,
                          <<"T", "o", "p", "i", "c", "A", "r", "n">>, topic.arn),
                          <<"M", "e", "s", "s", "a", "g", "e">>, body),
                          <<"A", "c", "t", "i", "o", "n">>, <<"P", "u", "b", "l", "i", "s", "h">>)
        IN  signNew(defaultHTTPSigningContext,
                    <<"h", "t", "t", "p", "s", ":", "/", "/">> \o topic.host \o <<"/", "?">> \o Encode(params), BOOLEAN)

\* The library used through its public operations only.
InitCallers ==
    /\ c \in Contexts
    /\ orig = <<>>
    /\ \E target \in Targets : r = request(target, orig)
    /\ now = 0
    /\ nsigns = 0
    /\ err = FALSE
    /\ calls = <<>>

NextCallers ==
    \/ Tick
    \/ SignRequest
    \/ CreatePurchaseURL
    \/ GetTransactionStatus
    \/ SettleTransaction
    \/ VerifyPaymentParams
    \/ ReceiveMessages
    \/ DeleteMessage
    \/ Publish

SpecCallers == InitCallers /\ [][NextCallers]_vars

(***************************************************************************)
(* Vocabulary of the properties.                                           *)
(***************************************************************************)
\* The name of the profile's signature field.
SigName(sc) == IF sc = defaultHTTPSigningContext THEN <<"S", "i", "g", "n", "a", "t", "u", "r", "e">> ELSE <<"s", "i", "g", "n", "a", "t", "u", "r", "e">>

\* The names of the profile's baseline parameters.
BaselineNames(sc) ==
    IF sc = defaultHTTPSigningContext
    THEN {<<"T", "i", "m", "e", "s", "t", "a", "m", "p">>, <<"A", "W", "S", "A", "c", "c", "e", "s", "s", "K", "e", "y", "I", "d">>, <<"S", "i", "g", "n", "a", "t", "u", "r", "e", "V", "e", "r", "s", "i", "o", "n">>, <<"S", "i", "g", "n", "a", "t", "u", "r", "e", "M", "e", "t", "h", "o", "d">>}
    ELSE {<<"a", "c", "c", "e", "s", "s", "K", "e", "y">>, <<"s", "i", "g", "n", "a", "t", "u", "r", "e", "V", "e", "r", "s", "i", "o", "n">>, <<"s", "i", "g", "n", "a", "t", "u", "r", "e", "M", "e", "t", "h", "o", "d">>}

\* The value the profile gives a baseline parameter in the call.
BaselineValue(call, name) ==
    IF name = <<"T", "i", "m", "e", "s", "t", "a", "m", "p">> THEN Format(call.t)
    ELSE IF name \in {<<"A", "W", "S", "A", "c", "c", "e", "s", "s", "K", "e", "y", "I", "d">>, <<"a", "c", "c", "e", "s", "s", "K", "e", "y">>} THEN c.keyId
    ELSE IF name \in {<<"S", "i", "g", "n", "a", "t", "u", "r", "e", "V", "e", "r", "s", "i", "o", "n">>, <<"s", "i", "g", "n", "a", "t", "u", "r", "e", "V", "e", "r", "s", "i", "o", "n">>} THEN <<"2">>
    ELSE <<"H", "m", "a", "c", "S", "H", "A", "2", "5", "6">>

\* The field names of the default profile.
UpperNames == {<<"A", "W", "S", "A", "c", "c", "e", "s", "s", "K", "e", "y", "I", "d">>, <<"S", "i", "g", "n", "a", "t", "u", "r", "e", "V", "e", "r", "s", "i", "o", "n">>, <<"S", "i", "g", "n", "a", "t", "u", "r", "e", "M", "e", "t", "h", "o", "d">>, <<"S", "i", "g", "n", "a", "t", "u", "r", "e">>}

\* The calls recorded in the state.
Calls == {calls[i] : i \in 1..Len(calls)}

\* The query parameters of the request as the call received it, and as it left it.
InputOf(call) == Query(call.r.RawQuery)
FinalOf(call) == Query(call.out.RawQuery)

\* The query part of a string-to-sign: what follows the third newline.
QueryPart(signString) ==
    LET P  == {i \in 1..Len(signString) : signString[i] = "\n"}
        p3 == CHOOSE p \in P : Cardinality({q \in P : q < p}) = 2
    IN  SubSeq(signString, p3 + 1, Len(signString))

\* How often x occurs in the sequence s.
Count(s, x) == Cardinality({i \in 1..Len(s) : s[i] = x})

\* Whether two sequences hold the same elements, each as often.
SameBag(s, t) == \A x \in Range(s) \cup Range(t) : Count(s, x) = Count(t, x)

\* Whether two raw queries carry the same multiset of key/value pairs.
SamePairs(q1, q2) ==
    LET v1 == Query(q1)
        v2 == Query(q2)
    IN  /\ DOMAIN v1 = DOMAIN v2
        /\ \A k \in DOMAIN v1 : SameBag(v1[k], v2[k])

\* strings.ToUpper on ASCII.
ToUpper(s) ==
    [i \in 1..Len(s) |->
        IF Byte[s[i]] \in 97..122 THEN Chr(Byte[s[i]] - 32) ELSE s[i]]

(***************************************************************************)
(* C1.  Canonicalization order independence: two sign calls with the same  *)
(* credentials, profile, method, host and path, made (for the default      *)
(* profile) at the same clock value, on queries that carry the same        *)
(* multiset of key/value pairs in whatever order, sign the same            *)
(* string-to-sign and attach the same signature value.                     *)
(***************************************************************************)
OrderIndependent ==
    \A x, y \in Calls :
        (/\ x.sc = y.sc
         /\ x.r.Method = y.r.Method /\ x.r.Host = y.r.Host /\ x.r.Path = y.r.Path
         /\ SamePairs(x.r.RawQuery, y.r.RawQuery)
         /\ x.sc = defaultHTTPSigningContext => x.t = y.t)
        => /\ x.out.signString = y.out.signString
           /\ x.out.signature = y.out.signature

\* Two calls of one profile at one clock value, on queries that list two
\* values of one key in opposite orders.
OrderIndependentWitness ==
    /\ Len(calls) = 2
    /\ calls[1].sc = calls[2].sc
    /\ calls[1].t = calls[2].t
    /\ calls[1].r.RawQuery # calls[2].r.RawQuery
    /\ SamePairs(calls[1].r.RawQuery, calls[2].r.RawQuery)
    /\ \E k \in DOMAIN InputOf(calls[1]) :
          /\ Len(InputOf(calls[1])[k]) = 2
          /\ InputOf(calls[1])[k] # InputOf(calls[2])[k]
    /\ calls[1].out.signString = calls[2].out.signString

(***************************************************************************)
(* C2.  Re-signing overwrites: after every sign call the request's query   *)
(* holds exactly one value under the profile's signature field name, the   *)
(* signature the call computed; a signature the field held before is gone. *)
(***************************************************************************)
ResignOverwrites ==
    \A x \in Calls :
        LET final == FinalOf(x)
        IN  /\ SigName(x.sc) \in DOMAIN final
            /\ final[SigName(x.sc)] = <<x.out.signature>>

\* The second of two calls of one profile on one request: the first call's
\* signature was in the query the second received, and is replaced by another.
ResignOverwritesWitness ==
    /\ Len(calls) = 2
    /\ calls[1].sc = calls[2].sc
    /\ calls[2].r.RawQuery = calls[1].out.RawQuery
    /\ InputOf(calls[2])[SigName(calls[2].sc)] = <<calls[1].out.signature>>
    /\ calls[2].out.signature # calls[1].out.signature
    /\ FinalOf(calls[2])[SigName(calls[2].sc)] = <<calls[2].out.signature>>

\* The resulting query holds the profile's access key, version and method
\* fields with the profile's values, and the profile's signature field.
ProfileFields(x) ==
    LET final == FinalOf(x)
    IN  /\ \A name \in BaselineNames(x.sc) \ {<<"T", "i", "m", "e", "s", "t", "a", "m", "p">>} :
              /\ name \in DOMAIN final
              /\ final[name] = <<BaselineValue(x, name)>>
        /\ SigName(x.sc) \in DOMAIN final

(***************************************************************************)
(* C3.  Profile-specific field names.  As stated: after signing with       *)
(* default the query holds AWSAccessKeyId (the access key id),             *)
(* SignatureVersion=2, SignatureMethod=HmacSHA256 and Signature; after     *)
(* signing with purchase it holds accessKey, signatureVersion=2,           *)
(* signatureMethod=HmacSHA256 and signature, and none of the fields        *)
(* AWSAccessKeyId, SignatureVersion, SignatureMethod, Signature.           *)
(***************************************************************************)
ProfileFieldNamesAsStated ==
    \A x \in Calls :
        /\ ProfileFields(x)
        /\ x.sc = purchaseSigningContext => DOMAIN FinalOf(x) \cap UpperNames = {}

\* C3 as amended: signing with purchase adds none of the upper-case fields; one
\* is in the resulting query only if the request carried it already, and then
\* with the values it had.
ProfileFieldNames ==
    \A x \in Calls :
        /\ ProfileFields(x)
        /\ x.sc = purchaseSigningContext =>
              LET final == FinalOf(x)
                  input == InputOf(x)
              IN  \A name \in DOMAIN final \cap UpperNames :
                      /\ name \in DOMAIN input
                      /\ final[name] = input[name]

\* A default call and a purchase call, the purchase call on a query with none
\* of the upper-case fields and leaving none.
ProfileFieldNamesWitness ==
    /\ Len(calls) = 2
    /\ calls[1].sc = defaultHTTPSigningContext
    /\ calls[2].sc = purchaseSigningContext
    /\ DOMAIN InputOf(calls[2]) # {}
    /\ DOMAIN InputOf(calls[2]) \cap UpperNames = {}
    /\ DOMAIN FinalOf(calls[2]) \cap UpperNames = {}
    /\ FinalOf(calls[2])[<<"a", "c", "c", "e", "s", "s", "K", "e", "y">>] = <<c.keyId>>
    /\ FinalOf(calls[1])[<<"A", "W", "S", "A", "c", "c", "e", "s", "s", "K", "e", "y", "I", "d">>] = <<c.keyId>>

\* The value as the claim writes it, "+" written as plus.
Written(value, plus) ==
    Concat([i \in 1..Len(value) |->
               IF value[i] = " " THEN <<"%", "2", "0">>
               ELSE IF value[i] = "+" THEN plus
               ELSE IF value[i] = "(" THEN <<"%", "2", "8">>
               ELSE IF value[i] = ")" THEN <<"%", "2", "9">>
               ELSE QueryEscape(<<value[i]>>)])

Special == {" ", "+", "(", ")"}

\* Every signed value with a space, "+", "(" or ")" is listed in the query part
\* as written, and the query part holds no literal "+", "(" or ")".
Escaping(x, plus) ==
    LET listed == Range(Split(QueryPart(x.out.signString), "&"))
    IN  /\ \A k \in DOMAIN x.out.params :
              \A i \in 1..Len(x.out.params[k]) :
                  Range(x.out.params[k][i]) \cap Special # {} =>
                      (QueryEscape(k) \o <<"=">> \o Written(x.out.params[k][i], plus))
                          \in listed
        /\ Range(QueryPart(x.out.signString)) \cap {"+", "(", ")"} = {}

(***************************************************************************)
(* C4.  Escaping correctness.  As stated: a space, "+", "(" or ")" in a    *)
(* decoded parameter value is represented in the query part of the         *)
(* string-to-sign as "%20", "%20", "%28", "%29" respectively, and the      *)
(* query part holds no literal "+", "(" or ")".                            *)
(***************************************************************************)
EscapingAsStated == \A x \in Calls : Escaping(x, <<"%", "2", "0">>)

\* C4 as amended: a literal "+" is represented as "%2B"; a space as "%20", "("
\* as "%28", ")" as "%29"; the query part holds no literal "+", "(" or ")".
EscapingCorrect == \A x \in Calls : Escaping(x, <<"%", "2", "B">>)

\* A call that signed a value with a space and a value with "+", "(" and ")".
EscapingCorrectWitness ==
    \E x \in Calls :
        /\ \E k \in DOMAIN x.out.params : <<"b", " ", "c">> \in Range(x.out.params[k])
        /\ \E k \in DOMAIN x.out.params : <<"(", "+", ")">> \in Range(x.out.params[k])
        /\ <<"a", "=", "b", "%", "2", "0", "c">> \in Range(Split(QueryPart(x.out.signString), "&"))
        /\ <<"b", "=", "%", "2", "8", "%", "2", "B", "%", "2", "9">> \in Range(Split(QueryPart(x.out.signString), "&"))

(***************************************************************************)
(* C5.  String-to-sign layout: the string that is signed is the method in  *)
(* upper case, the host, the path and the corrected query string, in that  *)
(* order, one newline between consecutive parts and none at the end.       *)
(***************************************************************************)
SignStringLayout ==
    \A x \in Calls :
        x.out.signString =
            ToUpper(x.r.Method) \o <<"\n">> \o x.r.Host \o <<"\n">> \o x.r.Path
                \o <<"\n">> \o x.out.queryString

\* The baseline parameters hold the profile's values, in the resulting query
\* and in the string-to-sign; the other parameters of the request, those in
\* overwritten apart, keep their values.
BaselineOverwrites(x, overwritten) ==
    LET input  == InputOf(x)
        final  == FinalOf(x)
        signed == Query(QueryPart(x.out.signString))
    IN  /\ \A name \in BaselineNames(x.sc) :
              /\ name \in DOMAIN final
              /\ final[name] = <<BaselineValue(x, name)>>
              /\ name \in DOMAIN signed
              /\ signed[name] = <<BaselineValue(x, name)>>
        /\ \A k \in DOMAIN input \ overwritten :
              /\ k \in DOMAIN final
              /\ final[k] = input[k]

(***************************************************************************)
(* C6.  Baseline parameters overwrite caller values.  As stated: after a   *)
(* sign call every baseline parameter name of the profile has exactly one  *)
(* value, the profile's (for Timestamp the clock value read by the call),  *)
(* whatever values the request carried under it; that value is the one in  *)
(* the string-to-sign; and every other parameter the request carried keeps *)
(* all its values.                                                         *)
(***************************************************************************)
BaselineOverwritesAsStated ==
    \A x \in Calls : BaselineOverwrites(x, BaselineNames(x.sc))

\* C6 as amended: every other parameter the request carried, except the one
\* under the profile's signature field name, keeps all its values.
BaselineOverwritesOthersKept ==
    \A x \in Calls : BaselineOverwrites(x, BaselineNames(x.sc) \cup {SigName(x.sc)})

\* A default call made after the clock advanced, on a request that carried its
\* own Timestamp and another parameter.
BaselineOverwritesWitness ==
    \E x \in Calls :
        /\ x.sc = defaultHTTPSigningContext
        /\ x.t > 0
        /\ <<"T", "i", "m", "e", "s", "t", "a", "m", "p">> \in DOMAIN InputOf(x)
        /\ InputOf(x)[<<"T", "i", "m", "e", "s", "t", "a", "m", "p">>] = <<<<"1">>>>
        /\ <<"a">> \in DOMAIN InputOf(x)
        /\ FinalOf(x)[<<"T", "i", "m", "e", "s", "t", "a", "m", "p">>] = <<Format(x.t)>>
        /\ FinalOf(x)[<<"a">>] = InputOf(x)[<<"a">>]

(***************************************************************************)
(* C8.  Determinism of the purchase profile: two sign(purchase) calls on   *)
(* identical requests, with the same credentials, sign the same            *)
(* string-to-sign, attach the same signature and leave the same query      *)
(* parameters, whatever the clock value of each call; and the call adds no *)
(* Timestamp parameter (one is in the resulting query only as the request  *)
(* had it).                                                                *)
(***************************************************************************)
PurchaseDeterministic ==
    /\ \A x, y \in Calls :
          (x.sc = purchaseSigningContext /\ y.sc = purchaseSigningContext /\ x.r = y.r)
          => /\ x.out.signString = y.out.signString
             /\ x.out.signature = y.out.signature
             /\ FinalOf(x) = FinalOf(y)
    /\ \A x \in Calls :
          x.sc = purchaseSigningContext =>
              LET input == InputOf(x)
                  final == FinalOf(x)
              IN  <<"T", "i", "m", "e", "s", "t", "a", "m", "p">> \in DOMAIN final =>
                      /\ <<"T", "i", "m", "e", "s", "t", "a", "m", "p">> \in DOMAIN input
                      /\ final[<<"T", "i", "m", "e", "s", "t", "a", "m", "p">>] = input[<<"T", "i", "m", "e", "s", "t", "a", "m", "p">>]

\* Two purchase calls on identical requests at different clock values, the
\* request without a Timestamp.
PurchaseDeterministicWitness ==
    /\ Len(calls) = 2
    /\ calls[1].sc = purchaseSigningContext
    /\ calls[2].sc = purchaseSigningContext
    /\ calls[1].r = calls[2].r
    /\ calls[1].t # calls[2].t
    /\ calls[1].r.RawQuery # <<>>
    /\ <<"T", "i", "m", "e", "s", "t", "a", "m", "p">> \notin DOMAIN FinalOf(calls[2])
    /\ FinalOf(calls[1]) = FinalOf(calls[2])

\* The three corrections of sign, applied to one pair-string.
Corrected(s) ==
    Replace(Replace(Replace(s, "+", <<"%", "2", "0">>), "(", <<"%", "2", "8">>), ")", <<"%", "2", "9">>)

(***************************************************************************)
(* C9.  Whole-pair sort: the query part of the string-to-sign lists the    *)
(* form-encoded "key=value" pair-strings of the signed parameters (each    *)
(* with the three corrections applied) in ascending byte order of the      *)
(* whole form-encoded pair-string, not of the key: "a-b=1" precedes "a=1", *)
(* and the values of one key are in the order of their encoded values.     *)
(***************************************************************************)
WholePairSort ==
    \A x \in Calls :
        LET listed == Split(QueryPart(x.out.signString), "&")
            values == x.out.values
        IN  /\ SameBag(values, encodedPairs(x.out.params))
            /\ Len(listed) = Len(values)
            /\ \A i \in 1..Len(values) : listed[i] = Corrected(values[i])
            /\ \A i, j \in 1..Len(values) : i < j => ~Less(values[j], values[i])

\* A call on a request that listed a=1 before a-b=1, whose string-to-sign
\* lists a-b=1 and then a=1.
WholePairSortWitness ==
    \E x \in Calls :
        LET listed == Split(QueryPart(x.out.signString), "&")
        IN  /\ x.r.RawQuery = <<"a", "=", "1", "&", "a", "-", "b", "=", "1">>
            /\ \E i \in 1..Len(listed) :
                  /\ i + 1 <= Len(listed)
                  /\ listed[i] = <<"a", "-", "b", "=", "1">>
                  /\ listed[i + 1] = <<"a", "=", "1">>

\* The parameters without those under the name.
Del(v, name) == [k \in DOMAIN v \ {name} |-> v[k]]

\* The canonical query string of a set of parameters.
Canonical(v) ==
    IF DOMAIN v = {} THEN <<>>
    ELSE Corrected(Join(SortStrings(encodedPairs(v)), <<"&">>))

(***************************************************************************)
(* C10.  Signature covers exactly what is sent: after every sign call the  *)
(* attached signature is base64(HMAC(key, string-to-sign)) for the         *)
(* string-to-sign whose query part is the canonical form of the request's  *)
(* final query parameters with the profile's signature field removed: a    *)
(* verifier that strips the signature field from the final request and     *)
(* recomputes obtains the attached signature.                              *)
(***************************************************************************)
SignatureCoversFinal ==
    \A x \in Calls :
        LET final     == FinalOf(x)
            canonical == Canonical(Del(final, SigName(x.sc)))
            recompute == x.r.Method \o <<"\n">> \o x.r.Host \o <<"\n">> \o x.r.Path
                             \o <<"\n">> \o canonical
        IN  /\ QueryPart(x.out.signString) = canonical
            /\ final[SigName(x.sc)] = <<EncodeToString(Sum(c.key, recompute))>>

(***************************************************************************)
(* C7.  sign never fails: every sign call made by the public operations    *)
(* (SignRequest, CreatePurchaseURL, GetTransactionStatus,                  *)
(* SettleTransaction, VerifyPaymentParams, ReceiveMessages, DeleteMessage, *)
(* Publish) passes the profile default or purchase, does not panic, and    *)
(* ends with a signature attached to the request.                          *)
(***************************************************************************)
SignNeverFails ==
    \A x \in Calls :
        /\ x.sc \in {defaultHTTPSigningContext, purchaseSigningContext}
        /\ ~x.out.panic
        /\ LET final == FinalOf(x)
           IN  /\ SigName(x.sc) \in DOMAIN final
               /\ final[SigName(x.sc)] = <<x.out.signature>>
               /\ x.out.signature # <<>>

\* A purchase call made by CreatePurchaseURL and a default call made by another
\* operation, both with their signature attached.
SignNeverFailsWitness ==
    /\ Len(calls) = 2
    /\ calls[1].sc = purchaseSigningContext
    /\ calls[1].r.Path = <<"/", "p", "b", "a", "/", "p", "a", "y", "p", "i", "p", "e", "l", "i", "n", "e">>
    /\ calls[2].sc = defaultHTTPSigningContext
    /\ calls[2].r.Host = <<"f", "p", "s", ".", "a", "m", "a", "z", "o", "n", "a", "w", "s", ".", "c", "o", "m">>
    /\ <<"s", "i", "g", "n", "a", "t", "u", "r", "e">> \in DOMAIN FinalOf(calls[1])
    /\ <<"S", "i", "g", "n", "a", "t", "u", "r", "e">> \in DOMAIN FinalOf(calls[2])

=============================================================================
